---- MODULE Spec2Model ----
(***************************************************************************)
(* State-machine model of the cache / cookie validation engine of the      *)
(* HTTP visualizer: CacheSimulator (src/server/utils/cacheSimulator.js)    *)
(* and CookieHandler (src/server/utils/cookieHandler.js).                  *)
(*                                                                         *)
(* Strings that the code takes apart (Cache-Control values, numeric        *)
(* attribute values, cache keys) are sequences of one-character strings.   *)
(* JavaScript numbers are records [nan, v] so that NaN and its comparison  *)
(* rules are explicit.  Time is in milliseconds since the epoch.           *)
(***************************************************************************)
EXTENDS Integers, Sequences, FiniteSets, TLC

VARIABLES now, cache, cacheMetadata, cookieJar, stored, last, route

vars == <<now, cache, cacheMetadata, cookieJar, stored, last, route>>

(***************************************************************************)
(* Bounds of the model.                                                    *)
(***************************************************************************)
\* Date.now() at start-up, not a multiple of 1000
T0 == 1500
\* the clock advances at most MaxSeconds times by a second
MaxSeconds == 1
\* the clock advances at most MaxHours times by an hour
MaxHours == 1
\* an entry is read at most MaxAccess times between two stores
MaxAccess == 2

(***************************************************************************)
(* JavaScript numbers.                                                     *)
(***************************************************************************)
Num(n) == [nan |-> FALSE, v |-> n]

NaN == [nan |-> TRUE, v |-> 0]

\* a + b
Add(a, b) == IF a.nan \/ b.nan THEN NaN ELSE Num(a.v + b.v)

\* a * b
Mul(a, b) == IF a.nan \/ b.nan THEN NaN ELSE Num(a.v * b.v)

\* a > b : false as soon as one side is NaN
Gt(a, b) == ~a.nan /\ ~b.nan /\ a.v > b.v

\* a <= b : false as soon as one side is NaN
Le(a, b) == ~a.nan /\ ~b.nan /\ a.v <= b.v

(***************************************************************************)
(* JavaScript strings as sequences of characters.                          *)
(***************************************************************************)
Digits == {"0", "1", "2", "3", "4", "5", "6", "7", "8", "9"}

DigitVal(c) ==
    CASE c = "0" -> 0 [] c = "1" -> 1 [] c = "2" -> 2 [] c = "3" -> 3
      [] c = "4" -> 4 [] c = "5" -> 5 [] c = "6" -> 6 [] c = "7" -> 7
      [] c = "8" -> 8 [] c = "9" -> 9

\* s with its first n characters removed
Drop(s, n) == SubSeq(s, n + 1, Len(s))

RECURSIVE TrimStart(_)
TrimStart(s) == IF s # <<>> /\ Head(s) = " " THEN TrimStart(Tail(s)) ELSE s

RECURSIVE TrimEnd(_)
TrimEnd(s) ==
    IF s # <<>> /\ s[Len(s)] = " " THEN TrimEnd(SubSeq(s, 1, Len(s) - 1)) ELSE s

\* String.prototype.trim
Trim(s) == TrimEnd(TrimStart(s))

\* String.prototype.includes, for a one-character needle
Includes(s, c) == \E i \in 1..Len(s) : s[i] = c

\* index of the first c in s, 0 when there is none
RECURSIVE IndexOf(_, _, _)
IndexOf(s, c, i) ==
    IF i > Len(s) THEN 0 ELSE IF s[i] = c THEN i ELSE IndexOf(s, c, i + 1)

\* String.prototype.split, for a one-character separator
RECURSIVE Split(_, _)
Split(s, c) ==
    LET i == IndexOf(s, c, 1)
    IN  IF i = 0 THEN <<s>>
        ELSE <<SubSeq(s, 1, i - 1)>> \o Split(Drop(s, i), c)

\* the longest prefix of s made of digits
RECURSIVE DigitPrefix(_)
DigitPrefix(s) ==
    IF s # <<>> /\ Head(s) \in Digits THEN <<Head(s)>> \o DigitPrefix(Tail(s))
    ELSE <<>>

\* the value of a non-empty sequence of digits
RECURSIVE DigitsValue(_)
DigitsValue(d) ==
    IF Len(d) = 1 THEN DigitVal(d[1])
    ELSE 10 * DigitsValue(SubSeq(d, 1, Len(d) - 1)) + DigitVal(d[Len(d)])

\* parseInt(s): leading blanks, an optional sign, then the longest run of
\* digits; NaN when there is no digit.  (No "0x" prefix occurs in the model.)
ParseInt(s) ==
    LET t    == TrimStart(s)
        neg  == t # <<>> /\ Head(t) = "-"
        sgn  == t # <<>> /\ Head(t) \in {"-", "+"}
        body == IF sgn THEN Tail(t) ELSE t
        d    == DigitPrefix(body)
    IN  IF d = <<>> THEN NaN
        ELSE Num(IF neg THEN 0 - DigitsValue(d) ELSE DigitsValue(d))

\* Number(s), the conversion the * operator applies to a string operand: the
\* whole trimmed string must be an optionally signed integer literal, the empty
\* string is 0.  (No fraction, exponent or "Infinity" occurs in the model.)
StringToNumber(s) ==
    LET t    == Trim(s)
        neg  == t # <<>> /\ Head(t) = "-"
        sgn  == t # <<>> /\ Head(t) \in {"-", "+"}
        body == IF sgn THEN Tail(t) ELSE t
        d    == DigitPrefix(body)
    IN  IF t = <<>> THEN Num(0)
        ELSE IF d = <<>> \/ Len(d) # Len(body) THEN NaN
        ELSE Num(IF neg THEN 0 - DigitsValue(d) ELSE DigitsValue(d))

(***************************************************************************)
(* JavaScript values held in the directive map of parseCacheControl and in *)
(* the pieces of a Set-Cookie header: undefined, a number, a string given  *)
(* by its characters, true, or a string that is the HTTP-date of the       *)
(* second n after the epoch.                                               *)
(***************************************************************************)
Undef == [t |-> "undef", n |-> NaN, s |-> <<>>]

JNum(n) == [t |-> "num", n |-> n, s |-> <<>>]

JStr(s) == [t |-> "str", n |-> NaN, s |-> s]

JTrue == [t |-> "true", n |-> NaN, s |-> <<>>]

JDate(sec) == [t |-> "date", n |-> Num(sec), s |-> <<>>]

\* ToBoolean
Truthy(x) ==
    CASE x.t = "undef" -> FALSE
      [] x.t = "num"   -> ~x.n.nan /\ x.n.v # 0
      [] x.t = "str"   -> x.s # <<>>
      [] x.t = "true"  -> TRUE
      [] x.t = "date"  -> TRUE

\* a || b
Or(a, b) == IF Truthy(a) THEN a ELSE b

\* ToNumber
ToNumber(x) ==
    CASE x.t = "undef" -> NaN
      [] x.t = "num"   -> x.n
      [] x.t = "str"   -> StringToNumber(x.s)
      [] x.t = "true"  -> Num(1)
      [] x.t = "date"  -> NaN

\* parseInt(x): undefined and a date text ("Thu, 01 Jan ...") have no leading
\* digit
JParseInt(x) == IF x.t = "str" THEN ParseInt(x.s) ELSE NaN

\* new Date(x).getTime(): only a date text parses
JDateParse(x) == IF x.t = "date" THEN Mul(x.n, Num(1000)) ELSE NaN

UPPER ==
    <<"A", "B", "C", "D", "E", "F", "G", "H", "I", "J", "K", "L", "M", "N",
      "O", "P", "Q", "R", "S", "T", "U", "V", "W", "X", "Y", "Z">>

LOWER ==
    <<"a", "b", "c", "d", "e", "f", "g", "h", "i", "j", "k", "l", "m", "n",
      "o", "p", "q", "r", "s", "t", "u", "v", "w", "x", "y", "z">>

\* String.prototype.toLowerCase
ToLowerCase(s) ==
    [i \in 1..Len(s) |->
        IF \E j \in 1..26 : UPPER[j] = s[i]
        THEN LOWER[CHOOSE j \in 1..26 : UPPER[j] = s[i]]
        ELSE s[i]]

\* String.prototype.startsWith
StartsWith(s, prefix) ==
    Len(prefix) <= Len(s) /\ SubSeq(s, 1, Len(prefix)) = prefix

(***************************************************************************)
(* Dates.  The text of a date header is a record: an HTTP-date naming the  *)
(* second `sec` after the epoch, a text that does not parse as a date, or  *)
(* no text at all (header absent or empty).                                *)
(***************************************************************************)
HttpDate(sec) == [kind |-> "http", sec |-> sec]

BadDate == [kind |-> "bad", sec |-> 0]

NoDate == [kind |-> "none", sec |-> 0]

\* new Date(text).getTime()
DateParse(d) == IF d.kind = "http" THEN Num(d.sec * 1000) ELSE NaN

\* new Date(ms).toUTCString(): the milliseconds are dropped
ToUTCString(ms) == HttpDate(ms \div 1000)

(***************************************************************************)
(* CacheSimulator: pure functions.                                         *)
(***************************************************************************)
MAX_AGE == <<"m", "a", "x", "-", "a", "g", "e">>

ORIGINAL == <<"o", "r", "i", "g", "i", "n", "a", "l">>

\* 'max-age=3600', the fallback Cache-Control of a 304 answer
CC_FALLBACK == MAX_AGE \o <<"=", "3", "6", "0", "0">>

\* generateCacheKey: `${method}:${url}`
generateCacheKey(url, method) == method \o <<":">> \o url

\* obj[k] = v
Put(obj, k, v) == [x \in DOMAIN obj \cup {k} |-> IF x = k THEN v ELSE obj[x]]

\* obj[k]
Get(obj, k) == IF k \in DOMAIN obj THEN obj[k] ELSE Undef

\* Map.prototype.delete
Delete(map, k) == [x \in DOMAIN map \ {k} |-> map[x]]

\* faulty variant of ParsePart: the value is always the result of parseInt
ParsePartNumeric(directives, part) ==
    IF Includes(part, "=")
    THEN LET kv == Split(part, "=")
         IN  Put(directives, Trim(kv[1]), JNum(ParseInt(Trim(kv[2]))))
    ELSE Put(directives, part, JTrue)

\* the body of the forEach of parseCacheControl, for one part
ParsePart(directives, part) ==
    IF Includes(part, "=")
    THEN LET kv    == Split(part, "=")
             key   == kv[1]
             value == kv[2]
         IN  Put(directives, Trim(key),
                 Or(JNum(ParseInt(Trim(value))), JStr(Trim(value))))
    ELSE Put(directives, part, JTrue)

RECURSIVE ParseParts(_, _)
ParseParts(directives, parts) ==
    IF parts = <<>> THEN directives
    ELSE ParseParts(ParsePart(directives, Head(parts)), Tail(parts))

\* parseCacheControl
parseCacheControl(cacheControl) ==
    LET directives == [k \in {ORIGINAL} |-> JStr(cacheControl)]
        split      == Split(cacheControl, ",")
        parts      == [i \in 1..Len(split) |-> Trim(split[i])]
    IN  IF cacheControl = <<>> THEN directives
        ELSE ParseParts(directives, parts)

\* String.prototype.charCodeAt for the characters of the bodies of the model
CharCode(c) ==
    CASE c = "{" -> 123 [] c = "}" -> 125 [] c = "\"" -> 34 [] c = ":" -> 58
      [] c = "v" -> 118 [] c = "a" -> 97 [] c \in Digits -> 48 + DigitVal(c)

Base36 ==
    <<"0", "1", "2", "3", "4", "5", "6", "7", "8", "9", "a", "b", "c", "d",
      "e", "f", "g", "h", "i", "j", "k", "l", "m", "n", "o", "p", "q", "r",
      "s", "t", "u", "v", "w", "x", "y", "z">>

\* Number.prototype.toString(36) of a non-negative integer
RECURSIVE ToString36(_)
ToString36(n) ==
    IF n < 36 THEN <<Base36[n + 1]>>
    ELSE ToString36(n \div 36) \o <<Base36[(n % 36) + 1]>>

\* One round of the loop of generateETag.  The 32-bit hash is held as two
\* 16-bit halves <<hi, lo>> of its unsigned value, so that
\* hash = ((hash << 5) - hash) + char; hash = hash & hash
\* is (31 * hash + char) modulo 2^32.
HashStep(h, c) ==
    LET l == 31 * h[2] + CharCode(c)
    IN  <<(31 * h[1] + (l \div 65536)) % 65536, l % 65536>>

RECURSIVE HashLoop(_, _)
HashLoop(h, content) ==
    IF content = <<>> THEN h
    ELSE HashLoop(HashStep(h, Head(content)), Tail(content))

\* Math.abs of the signed 32-bit integer whose unsigned halves are h
HashAbs(h) ==
    IF h[1] < 32768 THEN h[1] * 65536 + h[2]
    ELSE (65535 - h[1]) * 65536 + (65536 - h[2])

\* generateETag, for a body whose JSON text is content
generateETag(content) ==
    <<"\"">> \o ToString36(HashAbs(HashLoop(<<0, 0>>, content))) \o <<"\"">>

(***************************************************************************)
(* Responses handed to store.  A body is its JSON text, or undefined (for  *)
(* which JSON.stringify returns undefined), or null.                       *)
(***************************************************************************)
Body(json) == [kind |-> "val", json |-> json]

UndefinedBody == [kind |-> "undef", json |-> <<>>]

NullBody == [kind |-> "null", json |-> <<"n", "u", "l", "l">>]

\* a response: its ETag header ('' when absent), its Last-Modified header
\* and its body
Response(etag, lastModified, body) ==
    [headers |-> [ETag |-> etag, LastModified |-> lastModified], body |-> body]

(***************************************************************************)
(* CacheSimulator: operations.  cache and cacheMetadata are the two Maps   *)
(* of the singleton.  Two history variables: last records the latest call, *)
(* its arguments, the entry it found and what it returned or whether it    *)
(* threw; stored records, for each key of cache, the call of store that    *)
(* wrote the entry of the key.                                             *)
(***************************************************************************)
EmptyMap == [k \in {} |-> 0]

\* faulty variant of NewEntry: the store counts as a first access
NewEntryCounted(response, etag, expiresAt) ==
    [response     |-> [headers |-> [ETag |-> etag,
                                    LastModified |-> response.headers.LastModified],
                       body |-> response.body],
     storedAt     |-> now,
     expiresAt    |-> expiresAt,
     etag         |-> etag,
     lastModified |-> IF response.headers.LastModified.kind # "none"
                      THEN response.headers.LastModified
                      ELSE ToUTCString(now),
     accessCount  |-> 1,
     lastAccessed |-> now]

\* the entry store() puts in this.cache
NewEntry(response, etag, expiresAt) ==
    [response     |-> [headers |-> [ETag |-> etag,
                                    LastModified |-> response.headers.LastModified],
                       body |-> response.body],
     storedAt     |-> now,
     expiresAt    |-> expiresAt,
     etag         |-> etag,
     lastModified |-> IF response.headers.LastModified.kind # "none"
                      THEN response.headers.LastModified
                      ELSE ToUTCString(now),
     accessCount  |-> 0,
     lastAccessed |-> now]

\* const maxAge = directives['max-age'] || 3600
MaxAgeOf(directives) == Or(Get(directives, MAX_AGE), JNum(Num(3600)))

\* const expiresAt = now + (maxAge * 1000)
ExpiresAtOf(maxAge) == Add(Num(now), Mul(ToNumber(maxAge), Num(1000)))

\* store(url, method, response, cacheControl).  JSON.stringify(undefined) is
\* undefined, so an undefined body makes generateETag throw before anything is
\* written, or, when the response carries its own ETag, makes the size
\* computation throw after the entry is written and before the metadata is.
Store(url, method, response, cacheControl) ==
    LET key        == generateCacheKey(url, method)
        directives == parseCacheControl(cacheControl)
        maxAge     == MaxAgeOf(directives)
        expiresAt  == ExpiresAtOf(maxAge)
        noBody     == response.body.kind = "undef"
        etag       == IF response.headers.ETag # <<>> THEN response.headers.ETag
                      ELSE generateETag(response.body.json)
        has        == key \in DOMAIN cache
        call       == [op |-> "store", key |-> key, response |-> response,
                       cacheControl |-> cacheControl, at |-> now, had |-> has,
                       replaced |-> IF has THEN cache[key].etag ELSE <<>>]
        throws(t)  == call @@ [threw |-> t, ret |-> IF t THEN <<>> ELSE etag]
        reads      == [reads |-> IF has THEN cache[key].accessCount ELSE 0]
    IN  /\ IF noBody /\ response.headers.ETag = <<>>
           THEN /\ UNCHANGED <<cache, cacheMetadata, stored>>
                /\ last' = throws(TRUE) @@ reads
           ELSE /\ cache' = Put(cache, key, NewEntry(response, etag, expiresAt))
                /\ IF noBody
                   THEN /\ UNCHANGED cacheMetadata
                        /\ last' = throws(TRUE) @@ reads
                        /\ stored' = Put(stored, key, throws(TRUE))
                   ELSE /\ cacheMetadata' =
                              Put(cacheMetadata, key,
                                  [url |-> url, method |-> method,
                                   size |-> Len(response.body.json),
                                   maxAge |-> maxAge,
                                   directives |-> directives])
                        /\ last' = throws(FALSE) @@ reads
                        /\ stored' = Put(stored, key, throws(FALSE))
        /\ UNCHANGED <<now, cookieJar, route>>

\* request headers of retrieve: If-None-Match ('' when absent) and
\* If-Modified-Since
Headers(ifNoneMatch, ifModifiedSince) ==
    [IfNoneMatch |-> ifNoneMatch, IfModifiedSince |-> ifModifiedSince]

Miss(reason, expiredAt) ==
    [hit |-> FALSE, reason |-> reason, expiredAt |-> expiredAt]

\* the object a hit returns; hdrETag is '' when the ETag header is not set
Hit(cached, type, statusCode, hdrCacheControl, hdrETag, body) ==
    [hit |-> TRUE, type |-> type, statusCode |-> statusCode,
     hdrCacheControl |-> hdrCacheControl, hdrETag |-> hdrETag,
     hdrLastModified |-> cached.lastModified,
     hdrAge |-> (now - cached.storedAt) \div 1000,
     body |-> body, cached |-> TRUE,
     cacheAge |-> now - cached.storedAt,
     remainingTime |-> Add(cached.expiresAt, Num(0 - now))]

\* const cached = this.cache.get(key): what store() wrote in the entry, which
\* no later call changes
Found(cached) ==
    [f \in {"response", "storedAt", "expiresAt", "etag", "lastModified"} |->
        cached[f]]

\* cached.accessCount++; cached.lastAccessed = now
Touch(cached) == [cached EXCEPT !.accessCount = @ + 1, !.lastAccessed = now]

\* directives.original || 'max-age=3600'
OriginalOf(metadata) == Or(Get(metadata.directives, ORIGINAL), JStr(CC_FALLBACK)).s

\* faulty variant of ETagMatches: the stored etag is compared without its
\* quotes
ETagMatchesUnquoted(cached, headers) ==
    /\ headers.IfNoneMatch # <<>>
    /\ headers.IfNoneMatch = SubSeq(cached.etag, 2, Len(cached.etag) - 1)

\* if (ifNoneMatch && ifNoneMatch === cached.etag)
ETagMatches(cached, headers) ==
    headers.IfNoneMatch # <<>> /\ headers.IfNoneMatch = cached.etag

\* faulty variant of NotModifiedSince: modifiedDate < sinceDate
NotModifiedBefore(cached, headers) ==
    /\ headers.IfModifiedSince.kind # "none"
    /\ Le(DateParse(cached.lastModified), DateParse(headers.IfModifiedSince))
    /\ DateParse(cached.lastModified) # DateParse(headers.IfModifiedSince)

\* faulty variant of NotModifiedSince: !(modifiedDate > sinceDate), which a
\* date that does not parse satisfies
NotModifiedUnlessLater(cached, headers) ==
    /\ headers.IfModifiedSince.kind # "none"
    /\ ~Gt(DateParse(cached.lastModified), DateParse(headers.IfModifiedSince))

\* if (ifModifiedSince) { ... if (modifiedDate <= sinceDate)
NotModifiedSince(cached, headers) ==
    /\ headers.IfModifiedSince.kind # "none"
    /\ Le(DateParse(cached.lastModified), DateParse(headers.IfModifiedSince))

\* faulty variant of Expired: an entry is kept one second past its expiry
ExpiredLate(cached) == Gt(Num(now), Add(cached.expiresAt, Num(1000)))

\* faulty variant of Expired: now >= cached.expiresAt
ExpiredAtBoundary(cached) ==
    ~cached.expiresAt.nan /\ now >= cached.expiresAt.v

\* now > cached.expiresAt
Expired(cached) == Gt(Num(now), cached.expiresAt)

\* retrieve(url, method, requestHeaders).  The two 304 branches read the
\* metadata of the key after the access statistics are written, and throw
\* when the key has no metadata.
Retrieve(url, method, headers) ==
    LET key    == generateCacheKey(url, method)
        has    == key \in DOMAIN cache
        cached == cache[key]
        call   == [op |-> "retrieve", key |-> key, headers |-> headers,
                   had |-> has]
        pre    == [pre |-> Found(cached), from |-> Get(stored, key)]
    IN  /\ has /\ ~Expired(cached) => cached.accessCount < MaxAccess
        /\ IF ~has
           THEN /\ UNCHANGED <<cache, cacheMetadata, stored>>
                /\ last' = call @@ [threw |-> FALSE,
                                    res |-> Miss("not-found", NaN)]
           ELSE IF Expired(cached)
           THEN /\ cache' = Delete(cache, key)
                /\ cacheMetadata' = Delete(cacheMetadata, key)
                /\ stored' = Delete(stored, key)
                /\ last' = call @@ pre @@
                           [threw |-> FALSE,
                            res |-> Miss("expired", cached.expiresAt)]
           ELSE /\ cache' = Put(cache, key, Touch(cached))
                /\ UNCHANGED <<cacheMetadata, stored>>
                /\ IF ETagMatches(cached, headers)
                   THEN IF key \notin DOMAIN cacheMetadata
                        THEN last' = call @@ pre @@ [threw |-> TRUE]
                        ELSE last' = call @@ pre @@
                             [threw |-> FALSE,
                              res |-> Hit(cached, "conditional", 304,
                                          OriginalOf(cacheMetadata[key]),
                                          cached.etag, NullBody)]
                   ELSE IF NotModifiedSince(cached, headers)
                   THEN IF key \notin DOMAIN cacheMetadata
                        THEN last' = call @@ pre @@ [threw |-> TRUE]
                        ELSE last' = call @@ pre @@
                             [threw |-> FALSE,
                              res |-> Hit(cached, "conditional", 304,
                                          OriginalOf(cacheMetadata[key]),
                                          <<>>, NullBody)]
                   ELSE last' = call @@ pre @@
                        [threw |-> FALSE,
                         res |-> Hit(cached, "full", 200, <<>>,
                                     cached.response.headers.ETag,
                                     cached.response.body)]
        /\ UNCHANGED <<now, cookieJar, route>>

\* faulty variant of Invalidate: the metadata of the key is kept
InvalidateEntryOnly(url, method) ==
    LET key == generateCacheKey(url, method)
    IN  /\ cache' = Delete(cache, key)
        /\ stored' = Delete(stored, key)
        /\ last' = [op |-> "invalidate", key |-> key, threw |-> FALSE,
                    ret |-> key \in DOMAIN cache]
        /\ UNCHANGED <<now, cookieJar, cacheMetadata, route>>

\* invalidate(url, method)
Invalidate(url, method) ==
    LET key == generateCacheKey(url, method)
    IN  /\ cache' = Delete(cache, key)
        /\ cacheMetadata' = Delete(cacheMetadata, key)
        /\ stored' = Delete(stored, key)
        /\ last' = [op |-> "invalidate", key |-> key, threw |-> FALSE,
                    ret |-> key \in DOMAIN cache]
        /\ UNCHANGED <<now, cookieJar, route>>

\* clear()
Clear ==
    /\ cache' = EmptyMap
    /\ cacheMetadata' = EmptyMap
    /\ stored' = EmptyMap
    /\ last' = [op |-> "clear", threw |-> FALSE,
                ret |-> Cardinality(DOMAIN cache)]
    /\ UNCHANGED <<now, cookieJar, route>>

\* faulty variant of Cleanup: the metadata of the expired entries is kept
CleanupEntriesOnly ==
    LET expired == {k \in DOMAIN cache : Expired(cache[k])}
    IN  /\ cache' = [k \in DOMAIN cache \ expired |-> cache[k]]
        /\ stored' = [k \in DOMAIN stored \ expired |-> stored[k]]
        /\ last' = [op |-> "cleanup", threw |-> FALSE,
                    ret |-> Cardinality(expired)]
        /\ UNCHANGED <<now, cookieJar, cacheMetadata, route>>

\* cleanup(): the forEach deletes every entry with now > expiresAt
Cleanup ==
    LET expired == {k \in DOMAIN cache : Expired(cache[k])}
    IN  /\ cache' = [k \in DOMAIN cache \ expired |-> cache[k]]
        /\ cacheMetadata' = [k \in DOMAIN cacheMetadata \ expired |->
                                 cacheMetadata[k]]
        /\ stored' = [k \in DOMAIN stored \ expired |-> stored[k]]
        /\ last' = [op |-> "cleanup", threw |-> FALSE,
                    ret |-> Cardinality(expired)]
        /\ UNCHANGED <<now, cookieJar, route>>

\* the instants the clock of the model takes
Instants ==
    {T0 + (a * 1000) + (b * 3600000) : a \in 0..MaxSeconds, b \in 0..MaxHours}

\* the clock moves on by d milliseconds between two calls
Advance(d) ==
    /\ now + d \in Instants
    /\ now' = now + d
    /\ last' = [op |-> "advance", threw |-> FALSE]
    /\ UNCHANGED <<cache, cacheMetadata, cookieJar, stored, route>>

(***************************************************************************)
(* Inputs of the cache operations.                                         *)
(***************************************************************************)
GET == <<"G", "E", "T">>

CacheURLs == {<<"/", "a">>}

\* '{"v":1}'
BODY_V1 == Body(<<"{", "\"", "v", "\"", ":", "1", "}">>)

\* '1'
BODY_1 == Body(<<"1">>)

\* the ETag header '"x"' of an origin response
ETAG_X == <<"\"", "x", "\"">>

\* the Last-Modified header of an origin response
LM_ORIGIN == HttpDate(2)

\* no validator headers: the ETag is derived, Last-Modified is the store time
R_PLAIN == Response(<<>>, NoDate, BODY_V1)

\* validators from the origin
R_ORIGIN == Response(ETAG_X, LM_ORIGIN, BODY_1)

\* a Last-Modified header that is not a date
R_BADLM == Response(<<>>, BadDate, BODY_V1)

\* no body, with and without an ETag header
R_NOBODY_ETAG == Response(ETAG_X, NoDate, UndefinedBody)

R_NOBODY == Response(<<>>, NoDate, UndefinedBody)

CC_NONE == <<>>

CC_1 == MAX_AGE \o <<"=", "1">>

CC_0 == MAX_AGE \o <<"=", "0">>

CC_ABC == MAX_AGE \o <<"=", "a", "b", "c">>

CC_BARE == MAX_AGE

CC_EMPTY == MAX_AGE \o <<"=">>

CacheControls == {CC_NONE, CC_1, CC_0, CC_ABC, CC_BARE, CC_EMPTY}

\* the <<response, Cache-Control>> pairs handed to store
StoreInputs ==
    ({R_PLAIN} \X CacheControls)
      \cup {<<R_ORIGIN, CC_1>>, <<R_BADLM, CC_NONE>>}
      \cup ({R_NOBODY_ETAG, R_NOBODY} \X {CC_1})

\* If-None-Match values: none, and the etags a store of the model can return
IfNoneMatchValues ==
    {<<>>, ETAG_X, generateETag(BODY_V1.json)}

\* If-Modified-Since values for a key: none, not a date, and around the
\* Last-Modified of the entry of the key
IfModifiedSinceValues(key) ==
    {NoDate, BadDate}
      \cup IF key \in DOMAIN cache /\ cache[key].lastModified.kind = "http"
           THEN {HttpDate(cache[key].lastModified.sec),
                 HttpDate(cache[key].lastModified.sec - 1)}
           ELSE {LM_ORIGIN}

RequestHeaders(key) ==
    {Headers(i, m) : i \in IfNoneMatchValues, m \in IfModifiedSinceValues(key)}

\* clock steps: one second, one hour
Deltas == {1000, 3600000}

\* the route layer when it handles no call
Idle == [handler |-> "none"]

(***************************************************************************)
(* Specification of the cache store.                                       *)
(***************************************************************************)
Init ==
    /\ now = T0
    /\ cache = EmptyMap
    /\ cacheMetadata = EmptyMap
    /\ cookieJar = EmptyMap
    /\ stored = EmptyMap
    /\ last = [op |-> "init", threw |-> FALSE]
    /\ route = Idle

StoreAny == \E u \in CacheURLs, in \in StoreInputs : Store(u, GET, in[1], in[2])

RetrieveAny ==
    \E u \in CacheURLs :
        \E h \in RequestHeaders(generateCacheKey(u, GET)) : Retrieve(u, GET, h)

InvalidateAny == \E u \in CacheURLs : Invalidate(u, GET)

AdvanceAny == \E d \in Deltas : Advance(d)

Next == StoreAny \/ RetrieveAny \/ InvalidateAny \/ Clear \/ Cleanup \/ AdvanceAny

Spec == Init /\ [][Next]_vars

(***************************************************************************)
(* Properties of the cache store.                                          *)
(***************************************************************************)
\* the latest call is a retrieve that found an entry for its key
RetrievedEntry == last.op = "retrieve" /\ last.had

\* ... and the entry was written by a call of store that returned
RetrievedStored == RetrievedEntry /\ ~last.from.threw

\* the latest call is a retrieve answered with a 304 without body
Answered304 ==
    /\ ~last.threw
    /\ last.res.hit
    /\ last.res.statusCode = 304
    /\ last.res.body = NullBody

\* the latest call is a retrieve answered with a full hit carrying body
Answered200(body) ==
    /\ ~last.threw
    /\ last.res.hit
    /\ last.res.statusCode = 200
    /\ last.res.cached
    /\ last.res.body = body

\* C1 - Cache expiry safety: a retrieve at a time now > expiresAt of the entry
\* it finds never returns a hit, whatever the conditional headers; it returns
\* {hit: false, reason: 'expired', expiredAt} and removes the entry and its
\* metadata, and the next retrieve for the key reports 'not-found'.
C1_ExpiredNeverHit ==
    /\ [](RetrievedEntry /\ Gt(Num(now), last.pre.expiresAt)
            => /\ ~last.threw
               /\ last.res = Miss("expired", last.pre.expiresAt)
               /\ last.key \notin DOMAIN cache
               /\ last.key \notin DOMAIN cacheMetadata)
    /\ [][(/\ RetrievedEntry /\ ~last.threw /\ ~last.res.hit
           /\ last'.op = "retrieve" /\ last'.key = last.key)
            => last'.res = Miss("not-found", NaN)]_vars

\* C1 witness: an expired entry was asked for with an If-None-Match equal to
\* its etag, and the answer was 'expired'
C1_Witness ==
    /\ RetrievedEntry
    /\ Gt(Num(now), last.pre.expiresAt)
    /\ last.headers.IfNoneMatch = last.pre.etag
    /\ last.res.reason = "expired"

\* C2 - Cache freshness: a retrieve without conditional headers at a time
\* now <= expiresAt (now = expiresAt included) returns a full hit: hit, status
\* 200, cached, and the body passed to the most recent store of the key.
C2_FreshFullHit ==
    (/\ RetrievedStored
     /\ last.headers = Headers(<<>>, NoDate)
     /\ Le(Num(now), last.pre.expiresAt))
        => Answered200(last.from.response.body)

\* C2 witness: a full hit at the very instant the entry expires
C2_Witness ==
    /\ RetrievedStored
    /\ last.headers = Headers(<<>>, NoDate)
    /\ Num(now) = last.pre.expiresAt
    /\ now > last.pre.storedAt
    /\ last.res.hit

\* C3 - ETag round-trip: a retrieve of a non-expired entry with If-None-Match
\* set to the value store returned is answered 304 with a null body, whether
\* the etag was copied from the origin's ETag header or derived from the body.
C3_ETagRoundTrip ==
    (/\ RetrievedStored
     /\ ~Gt(Num(now), last.pre.expiresAt)
     /\ last.headers.IfNoneMatch = last.from.ret)
        => Answered304

\* C3 witness: the 304 for an etag that store derived from the body
C3_Witness ==
    /\ RetrievedStored
    /\ last.from.response.headers.ETag = <<>>
    /\ last.headers.IfNoneMatch = last.from.ret
    /\ ~last.threw
    /\ last.res.hit
    /\ last.res.statusCode = 304

\* the premise of C4, for an entry written by a store that returned: a
\* non-expired entry, and no matching If-None-Match
C4_Premise ==
    /\ RetrievedStored
    /\ ~Gt(Num(now), last.pre.expiresAt)
    /\ ~(last.headers.IfNoneMatch # <<>>
           /\ last.headers.IfNoneMatch = last.pre.etag)

\* the two cases of C4
C4_Boundary ==
    /\ last.headers.IfModifiedSince = last.pre.lastModified => Answered304
    /\ (/\ last.pre.lastModified.kind = "http"
        /\ last.headers.IfModifiedSince
             = HttpDate(last.pre.lastModified.sec - 1))
          => Answered200(last.pre.response.body)

\* C4 for an entry written by a store that returned: with no matching
\* If-None-Match, If-Modified-Since equal to the stored Last-Modified is
\* answered 304 without body, and If-Modified-Since one second earlier is
\* answered with a full 200 hit carrying the stored body.
C4_Original == C4_Premise => C4_Boundary

\* the same, for an entry whose stored Last-Modified parses as a date
C4_LastModifiedBoundary ==
    C4_Premise /\ ~DateParse(last.pre.lastModified).nan => C4_Boundary

\* the case of C4_LastModifiedBoundary: a 304 for an If-Modified-Since equal
\* to the stored date
C4_Witness ==
    /\ C4_Premise
    /\ ~DateParse(last.pre.lastModified).nan
    /\ last.headers.IfModifiedSince = last.pre.lastModified
    /\ ~last.threw
    /\ last.res.statusCode = 304

\* the Cache-Control value has a max-age directive with a numeric value
HasNumericMaxAge(cacheControl) ==
    \E i \in 1..Len(Split(cacheControl, ",")) :
        LET kv == Split(Trim(Split(cacheControl, ",")[i]), "=")
        IN  /\ Len(kv) >= 2
            /\ Trim(kv[1]) = MAX_AGE
            /\ Trim(kv[2]) # <<>>
            /\ ~StringToNumber(Trim(kv[2])).nan

\* C5 - Default freshness lifetime: a store whose Cache-Control value has no
\* max-age directive, or one that is not a number, does not raise and gives
\* the entry a lifetime of exactly 3600 seconds.
C5_DefaultLifetime ==
    (/\ last.op = "store"
     /\ last.response.body.kind # "undef"
     /\ ~HasNumericMaxAge(last.cacheControl))
        => /\ ~last.threw
           /\ cache[last.key].expiresAt = Num(last.at + (3600 * 1000))

Answered304LastModified ==
    /\ ~last.threw
    /\ last.res.hit
    /\ last.res.statusCode = 304
    /\ last.res.hdrETag = <<>>

\* the latest call is a retrieve of an entry that is not expired, with an
\* If-Modified-Since header, and that header or the Last-Modified of the entry
\* is not a date
C12_Premise ==
    /\ RetrievedEntry
    /\ ~Gt(Num(now), last.pre.expiresAt)
    /\ last.headers.IfModifiedSince.kind # "none"
    /\ \/ DateParse(last.headers.IfModifiedSince).nan
       \/ DateParse(last.pre.lastModified).nan

\* C12 where the ETag branch is not taken: a retrieve on a non-expired entry
\* whose If-Modified-Since (or whose stored Last-Modified) is not a date is
\* never answered with the 304 of the Last-Modified branch, and, when
\* If-None-Match does not match the etag of the entry, it raises no exception
\* and is a full 200 hit with the stored body.
C12_MalformedDate ==
    C12_Premise =>
        /\ ~Answered304LastModified
        /\ last.headers.IfNoneMatch # last.pre.etag
              => Answered200(last.pre.response.body)

\* the case of C12_MalformedDate: a stored Last-Modified that is not a date,
\* sent back as If-Modified-Since, got a full hit
C12_Witness ==
    /\ C12_Premise
    /\ DateParse(last.pre.lastModified).nan
    /\ last.headers.IfModifiedSince = last.pre.lastModified
    /\ last.headers.IfNoneMatch = <<>>
    /\ ~last.threw
    /\ last.res.statusCode = 200

(***************************************************************************)
(* CookieHandler.  A Set-Cookie header is the sequence of its segments     *)
(* (what split(';') and trim give), a segment the sequence of its pieces   *)
(* (what split('=') gives), a piece a string.  The empty header is <<>>.   *)
(* A URL is a record: whether new URL() accepts it, its scheme as written  *)
(* (for a text that is not a URL, its first characters), and the hostname  *)
(* and pathname new URL() gives.                                           *)
(***************************************************************************)
A_EXPIRES == <<"e", "x", "p", "i", "r", "e", "s">>

A_DOMAIN == <<"d", "o", "m", "a", "i", "n">>

A_PATH == <<"p", "a", "t", "h">>

A_SAMESITE == <<"s", "a", "m", "e", "s", "i", "t", "e">>

A_SECURE == <<"s", "e", "c", "u", "r", "e">>

A_HTTPONLY == <<"h", "t", "t", "p", "o", "n", "l", "y">>

HTTPS == <<"h", "t", "t", "p", "s">>

\* the 24 hours of a session cookie, in milliseconds
SESSION_MS == 24 * 60 * 60 * 1000

\* the switch of parseCookie, for one attribute
ParseAttribute(cookie, attr) ==
    LET key      == attr[1]
        val      == IF Len(attr) >= 2 THEN attr[2] ELSE Undef
        attrName == ToLowerCase(Trim(key.s))
        set(k, v) == [cookie EXCEPT !.attributes = Put(@, k, v)]
    IN  CASE attrName = MAX_AGE ->
               [set("maxAge", JNum(JParseInt(val))) EXCEPT
                   !.expiresAt = JNum(Add(Num(now),
                                          Mul(JParseInt(val), Num(1000))))]
          [] attrName = A_EXPIRES ->
               [set("expires", val) EXCEPT !.expiresAt = JNum(JDateParse(val))]
          [] attrName = A_DOMAIN   -> set("domain", val)
          [] attrName = A_PATH     -> set("path", val)
          [] attrName = A_SAMESITE -> set("sameSite", val)
          [] attrName = A_SECURE   -> set("secure", JTrue)
          [] attrName = A_HTTPONLY -> set("httpOnly", JTrue)
          [] OTHER -> cookie

RECURSIVE ParseAttributes(_, _)
ParseAttributes(cookie, attributes) ==
    IF attributes = <<>> THEN cookie
    ELSE ParseAttributes(ParseAttribute(cookie, Head(attributes)),
                         Tail(attributes))

\* parseCookie, for a header that is not empty
parseCookie(setCookieHeader) ==
    LET nameValue == Head(setCookieHeader)
        name      == nameValue[1]
        value     == IF Len(nameValue) >= 2 THEN nameValue[2] ELSE Undef
        cookie    == [name       |-> Trim(name.s),
                      value      |-> IF Truthy(value) THEN Trim(value.s) ELSE <<>>,
                      attributes |-> EmptyMap,
                      raw        |-> setCookieHeader,
                      expiresAt  |-> Undef]
        parsed    == ParseAttributes(cookie, Tail(setCookieHeader))
    IN  IF ~Truthy(parsed.expiresAt)
        THEN [parsed EXCEPT !.attributes = Put(@, "session", JTrue),
                            !.expiresAt = JNum(Num(now + SESSION_MS))]
        ELSE parsed

\* faulty variant of extractDomain: a subdomain shares the bucket of its
\* parent domain
extractDomainParent(url) ==
    IF ~url.valid THEN "localhost"
    ELSE IF url.hostname = "sub.a.test" THEN "a.test"
    ELSE url.hostname

\* extractDomain
extractDomain(url) == IF url.valid THEN url.hostname ELSE "localhost"

\* faulty variant of SetCookie: the record is always added
SetCookieAppend(bucket, record) == Append(bucket, record)

\* Map.prototype.set on a bucket, which keeps the insertion order of the names
SetCookie(bucket, record) ==
    IF \E i \in 1..Len(bucket) : bucket[i].name = record.name
    THEN [i \in 1..Len(bucket) |->
             IF bucket[i].name = record.name THEN record ELSE bucket[i]]
    ELSE Append(bucket, record)

\* the forEach of storeCookies
RECURSIVE StoreHeaders(_, _, _)
StoreHeaders(bucket, domain, headers) ==
    IF headers = <<>> THEN bucket
    ELSE IF Head(headers) = <<>>
    THEN StoreHeaders(bucket, domain, Tail(headers))
    ELSE StoreHeaders(
             SetCookie(bucket,
                       parseCookie(Head(headers))
                         @@ [createdAt |-> now, domain |-> domain]),
             domain, Tail(headers))

\* cookie.expiresAt && now > cookie.expiresAt
CookieExpired(cookie) ==
    Truthy(cookie.expiresAt) /\ Gt(Num(now), cookie.expiresAt.n)

\* faulty variant of PathMatches: the path of the url is the path of the
\* cookie
PathMatchesExact(url, path) == url.pathname = path.s

\* urlPath.startsWith(cookie.attributes.path)
PathMatches(url, path) == StartsWith(url.pathname, path.s)

\* The forEach of getCookies over the cookies of a bucket, from the i-th on:
\* an expired cookie is deleted, a cookie with a Path is matched against
\* new URL(url).pathname, which throws for a text that is not a URL and ends
\* the loop, a Secure cookie needs a url that starts with 'https'.
RECURSIVE ScanCookies(_, _, _)
ScanCookies(url, bucket, acc) ==
    IF bucket = <<>> THEN acc
    ELSE LET cookie == Head(bucket)
             path   == Get(cookie.attributes, "path")
             rest   == Tail(bucket)
         IN  IF CookieExpired(cookie)
             THEN ScanCookies(url, rest, acc)
             ELSE IF Truthy(path) /\ ~url.valid
             THEN [acc EXCEPT !.kept = @ \o bucket, !.threw = TRUE]
             ELSE IF Truthy(path) /\ ~PathMatches(url, path)
             THEN ScanCookies(url, rest, [acc EXCEPT !.kept = Append(@, cookie)])
             ELSE IF Truthy(Get(cookie.attributes, "secure"))
                       /\ ~StartsWith(url.scheme, HTTPS)
             THEN ScanCookies(url, rest, [acc EXCEPT !.kept = Append(@, cookie)])
             ELSE ScanCookies(url, rest,
                              [acc EXCEPT !.kept = Append(@, cookie),
                                          !.valid = Append(@, cookie)])

\* getCookies(url): the bucket it leaves, the cookies it returns, and whether
\* it threw
getCookies(url) ==
    LET domain == extractDomain(url)
    IN  IF domain \notin DOMAIN cookieJar
        THEN [kept |-> <<>>, valid |-> <<>>, threw |-> FALSE]
        ELSE ScanCookies(url, cookieJar[domain],
                         [kept |-> <<>>, valid |-> <<>>, threw |-> FALSE])

\* the jar after getCookies(url) gave result
JarAfter(url, result) ==
    IF extractDomain(url) \in DOMAIN cookieJar
    THEN Put(cookieJar, extractDomain(url), result.kept)
    ELSE cookieJar

\* cookies.map(cookie => `${cookie.name}=${cookie.value}`).join('; ')
RECURSIVE JoinCookies(_)
JoinCookies(cookies) ==
    IF cookies = <<>> THEN <<>>
    ELSE LET pair == Head(cookies).name \o <<"=">> \o Head(cookies).value
         IN  IF Len(cookies) = 1 THEN pair
             ELSE pair \o <<";", " ">> \o JoinCookies(Tail(cookies))

(***************************************************************************)
(* CookieHandler: operations on the jar, a Map from domain to bucket.      *)
(***************************************************************************)
\* the bucket of the domain of url, empty when the jar has none
BucketOf(url) ==
    IF extractDomain(url) \in DOMAIN cookieJar
    THEN cookieJar[extractDomain(url)]
    ELSE <<>>

\* storeCookies(url, setCookieHeaders), for an array of headers
StoreCookies(url, headers) ==
    LET domain == extractDomain(url)
        bucket == StoreHeaders(BucketOf(url), domain, headers)
    IN  /\ cookieJar' = Put(cookieJar, domain, bucket)
        /\ last' = [op |-> "storeCookies", url |-> url, headers |-> headers,
                    at |-> now, pre |-> BucketOf(url), threw |-> FALSE,
                    ret |-> Len(bucket)]
        /\ UNCHANGED <<now, cache, cacheMetadata, stored, route>>

\* getCookies(url)
GetCookies(url) ==
    LET result == getCookies(url)
    IN  /\ cookieJar' = JarAfter(url, result)
        /\ last' = [op |-> "getCookies", url |-> url, pre |-> BucketOf(url),
                    threw |-> result.threw, ret |-> result.valid]
        /\ UNCHANGED <<now, cache, cacheMetadata, stored, route>>

\* getCookieHeader(url): null when getCookies returns nothing
GetCookieHeader(url) ==
    LET result == getCookies(url)
    IN  /\ cookieJar' = JarAfter(url, result)
        /\ last' = [op |-> "getCookieHeader", url |-> url,
                    pre |-> BucketOf(url), threw |-> result.threw,
                    ret |-> result.valid, null |-> result.valid = <<>>,
                    header |-> JoinCookies(result.valid)]
        /\ UNCHANGED <<now, cache, cacheMetadata, stored, route>>

\* the projection of getCookieDetails, for one cookie
CookieDetails(cookie) ==
    LET remaining == Add(cookie.expiresAt.n, Num(0 - now))
    IN  [name          |-> cookie.name,
         value         |-> cookie.value,
         domain        |-> cookie.domain,
         secure        |-> Truthy(Get(cookie.attributes, "secure")),
         httpOnly      |-> Truthy(Get(cookie.attributes, "httpOnly")),
         session       |-> Truthy(Get(cookie.attributes, "session")),
         age           |-> (now - cookie.createdAt) \div 1000,
         remainingNull |-> ~Truthy(JNum(remaining)),
         remainingTime |-> IF Truthy(JNum(remaining))
                           THEN remaining.v \div 1000 ELSE 0]

\* getCookieDetails(url)
GetCookieDetails(url) ==
    LET result == getCookies(url)
    IN  /\ cookieJar' = JarAfter(url, result)
        /\ last' = [op |-> "getCookieDetails", url |-> url,
                    pre |-> BucketOf(url), threw |-> result.threw,
                    ret |-> result.valid,
                    details |-> [i \in 1..Len(result.valid) |->
                                    CookieDetails(result.valid[i])]]
        /\ UNCHANGED <<now, cache, cacheMetadata, stored, route>>

\* faulty variant of Live: a cookie is dropped from the instant of its expiry
LiveBeforeExpiry(bucket) ==
    SelectSeq(bucket, LAMBDA cookie : Truthy(cookie.expiresAt)
                                        /\ Gt(cookie.expiresAt.n, Num(now)))

\* the cookies of a bucket that cleanup keeps
Live(bucket) == SelectSeq(bucket, LAMBDA cookie : ~CookieExpired(cookie))

\* cleanup() of the jar: expired cookies are deleted, then a domain whose
\* bucket is empty
CookieCleanup ==
    LET domains == {d \in DOMAIN cookieJar : Live(cookieJar[d]) # <<>>}
        removed(d) == Len(cookieJar[d]) - Len(Live(cookieJar[d]))
        RECURSIVE Sum(_)
        Sum(ds) == IF ds = {} THEN 0
                   ELSE LET d == CHOOSE x \in ds : TRUE
                        IN  removed(d) + Sum(ds \ {d})
    IN  /\ cookieJar' = [d \in domains |-> Live(cookieJar[d])]
        /\ last' = [op |-> "cookieCleanup", threw |-> FALSE,
                    ret |-> Sum(DOMAIN cookieJar)]
        /\ UNCHANGED <<now, cache, cacheMetadata, stored, route>>

(***************************************************************************)
(* Inputs of the cookie operations.                                        *)
(***************************************************************************)
\* https://a.test/page and http://a.test/page
URL_HTTPS == [valid |-> TRUE, scheme |-> HTTPS, hostname |-> "a.test",
              pathname |-> <<"/", "p", "a", "g", "e">>]

URL_HTTP == [valid |-> TRUE, scheme |-> <<"h", "t", "t", "p">>,
             hostname |-> "a.test", pathname |-> <<"/", "p", "a", "g", "e">>]

CookieURLs == {URL_HTTPS, URL_HTTP}

\* the URLs responses with Set-Cookie headers come from
SetCookieURLs == {URL_HTTPS}

\* the segment 'key=value' and the segment 'key'
Pair(key, value) == <<JStr(key), value>>

Flag(key) == <<JStr(key)>>

SID == Pair(<<"s", "i", "d">>, JStr(<<"a", "b", "c">>))

B1 == Pair(<<"b">>, JStr(<<"1">>))

MaxAgeAttr(n) == Pair(<<"M", "a", "x", "-", "A", "g", "e">>, JStr(n))

ExpiresAttr(sec) == Pair(<<"E", "x", "p", "i", "r", "e", "s">>, JDate(sec))

PathAttr(p) == Pair(<<"P", "a", "t", "h">>, JStr(p))

\* 'sid=abc; Path=/; Max-Age=1'
H_SID == <<SID, PathAttr(<<"/">>), MaxAgeAttr(<<"1">>)>>

\* 'sid=abc; Max-Age=0'
H_ZERO == <<SID, MaxAgeAttr(<<"0">>)>>

\* 'sid=abc; Expires=Thu, 01 Jan 1970 00:00:00 GMT', and one and two seconds
\* later: the first is before start-up, the second after
H_EPOCH == <<SID, ExpiresAttr(0)>>

H_PAST == <<SID, ExpiresAttr(1)>>

H_SOON == <<SID, ExpiresAttr(2)>>

\* Max-Age=3600 together with Expires two seconds after the epoch, in both
\* orders
H_MAXAGE_EXPIRES == <<SID, MaxAgeAttr(<<"3", "6", "0", "0">>), ExpiresAttr(2)>>

H_EXPIRES_MAXAGE == <<SID, ExpiresAttr(2), MaxAgeAttr(<<"3", "6", "0", "0">>)>>

\* 'b=1; Secure; Max-Age=1'
H_SECURE == <<B1, Flag(<<"S", "e", "c", "u", "r", "e">>), MaxAgeAttr(<<"1">>)>>

\* 'b=1; Path=/admin; Max-Age=1'
H_ADMIN == <<B1, PathAttr(<<"/", "a", "d", "m", "i", "n">>), MaxAgeAttr(<<"1">>)>>

\* 'b=1', a session cookie
H_SESSION == <<B1>>

SetCookieHeaders ==
    {H_SID, H_ZERO, H_EPOCH, H_PAST, H_SOON, H_MAXAGE_EXPIRES,
     H_EXPIRES_MAXAGE, H_SECURE, H_ADMIN, H_SESSION}

\* the arguments of storeCookies: one header, the empty header, or an array
StoreCookiesInputs ==
    {<<h>> : h \in SetCookieHeaders} \cup {<< <<>> >>, <<H_SID, H_SECURE>>}

(***************************************************************************)
(* Specification of the cookie jar.                                        *)
(***************************************************************************)
StoreCookiesAny ==
    \E u \in SetCookieURLs, hs \in StoreCookiesInputs : StoreCookies(u, hs)

GetCookiesAny == \E u \in CookieURLs : GetCookies(u)

GetCookieHeaderAny == \E u \in CookieURLs : GetCookieHeader(u)

GetCookieDetailsAny == \E u \in CookieURLs : GetCookieDetails(u)

CookieNext ==
    \/ StoreCookiesAny
    \/ GetCookiesAny
    \/ GetCookieHeaderAny
    \/ GetCookieDetailsAny
    \/ CookieCleanup
    \/ AdvanceAny

CookieSpec == Init /\ [][CookieNext]_vars

(***************************************************************************)
(* Properties of the cookie jar.                                           *)
(***************************************************************************)
\* the header has an attribute of that (lower-case) name
HasAttr(header, name) ==
    \E i \in 2..Len(header) : ToLowerCase(Trim(header[i][1].s)) = name

\* the value of the attribute of that name
AttrValue(header, name) ==
    header[CHOOSE i \in 2..Len(header) :
               ToLowerCase(Trim(header[i][1].s)) = name][2]

\* the cookie is one of cookies
InSeq(cookie, cookies) == \E i \in 1..Len(cookies) : cookies[i] = cookie

\* the record of that name in the bucket
Named(bucket, name) == bucket[CHOOSE i \in 1..Len(bucket) : bucket[i].name = name]

\* the latest call is a lookup in the jar
LookedUp == last.op \in {"getCookies", "getCookieHeader", "getCookieDetails"}

\* the path and the scheme of the cookie match the url
Applies(cookie, url) ==
    /\ HasAttr(cookie.raw, A_PATH)
          => StartsWith(url.pathname, AttrValue(cookie.raw, A_PATH).s)
    /\ HasAttr(cookie.raw, A_SECURE) => url.scheme = HTTPS

\* C8 - Cookie Max-Age expiry: a cookie stored at time s with Max-Age=n, whose
\* path and scheme match the request URL, is returned by a lookup at every
\* time t with s <= t <= s + n*1000 and at no time t > s + n*1000; the first
\* lookup on its domain after that removes it from the bucket, and
\* getCookieHeader then yields null when no other cookie applies.
C8_MaxAgeExpiry ==
    LookedUp =>
        \A i \in 1..Len(last.pre) :
            LET cookie == last.pre[i]
                until  == Add(Num(cookie.createdAt),
                              Mul(JParseInt(AttrValue(cookie.raw, MAX_AGE)),
                                  Num(1000)))
            IN  (/\ HasAttr(cookie.raw, MAX_AGE)
                 /\ ~until.nan
                 /\ Applies(cookie, last.url))
                  => /\ Le(Num(now), until) => InSeq(cookie, last.ret)
                     /\ Gt(Num(now), until)
                          => /\ ~InSeq(cookie, last.ret)
                             /\ ~InSeq(cookie, BucketOf(last.url))
                             /\ (last.op = "getCookieHeader" /\ last.ret = <<>>)
                                   => last.null

\* C9 - Cookie Expires-date expiry: a cookie stored with 'Expires=D', D a date
\* that parses (a date before the time of storage and the epoch included), and
\* no Max-Age has expiresAt = D and is returned by no lookup at a time t > D.
C9_ExpiresDate ==
    /\ last.op = "storeCookies" =>
         \A i \in 1..Len(last.headers) :
             LET header == last.headers[i]
             IN  (/\ header # <<>>
                  /\ HasAttr(header, A_EXPIRES)
                  /\ ~HasAttr(header, MAX_AGE)
                  /\ ~JDateParse(AttrValue(header, A_EXPIRES)).nan)
                   => Named(BucketOf(last.url), Trim(header[1][1].s)).expiresAt
                        = JNum(JDateParse(AttrValue(header, A_EXPIRES)))
    /\ LookedUp =>
         \A i \in 1..Len(last.pre) :
             LET cookie == last.pre[i]
             IN  (/\ HasAttr(cookie.raw, A_EXPIRES)
                  /\ ~HasAttr(cookie.raw, MAX_AGE)
                  /\ Gt(Num(now), JDateParse(AttrValue(cookie.raw, A_EXPIRES))))
                   => ~InSeq(cookie, last.ret)

\* C10 - Max-Age precedence: when a Set-Cookie value carries both Max-Age and
\* Expires, the expiresAt of the stored record is store time + Max-Age*1000,
\* whatever the order of the two attributes.
C10_MaxAgePrecedence ==
    last.op = "storeCookies" =>
        \A i \in 1..Len(last.headers) :
            LET header == last.headers[i]
            IN  (/\ header # <<>>
                 /\ HasAttr(header, A_EXPIRES)
                 /\ HasAttr(header, MAX_AGE)
                 /\ ~JParseInt(AttrValue(header, MAX_AGE)).nan)
                  => Named(BucketOf(last.url), Trim(header[1][1].s)).expiresAt
                       = JNum(Add(Num(last.at),
                                  Mul(JParseInt(AttrValue(header, MAX_AGE)),
                                      Num(1000))))

(***************************************************************************)
(* Scoping of cookies by path, scheme and host: inputs and specification.  *)
(* The cookies are session cookies and the clock stands still.             *)
(***************************************************************************)
ADMIN_USERS == <<"/", "a", "d", "m", "i", "n", "/", "u", "s", "e", "r", "s">>

\* https://a.test/admin/users
U_ADMIN == [valid |-> TRUE, scheme |-> HTTPS, hostname |-> "a.test",
            pathname |-> ADMIN_USERS]

\* https://a.test/public
U_PUBLIC == [valid |-> TRUE, scheme |-> HTTPS, hostname |-> "a.test",
             pathname |-> <<"/", "p", "u", "b", "l", "i", "c">>]

\* http://a.test/admin/users
U_ADMIN_HTTP == [valid |-> TRUE, scheme |-> <<"h", "t", "t", "p">>,
                 hostname |-> "a.test", pathname |-> ADMIN_USERS]

\* HTTPS://a.test/admin/users: new URL() takes the scheme in either case
U_ADMIN_UPPER == [valid |-> TRUE, scheme |-> <<"H", "T", "T", "P", "S">>,
                  hostname |-> "a.test", pathname |-> ADMIN_USERS]

\* https://sub.a.test/admin/users
U_SUB == [valid |-> TRUE, scheme |-> HTTPS, hostname |-> "sub.a.test",
          pathname |-> ADMIN_USERS]

\* https://b.test/admin/users
U_OTHER == [valid |-> TRUE, scheme |-> HTTPS, hostname |-> "b.test",
            pathname |-> ADMIN_USERS]

\* 'not a url', which new URL() rejects
U_BAD == [valid |-> FALSE, scheme |-> <<"n", "o", "t">>, hostname |-> "",
          pathname |-> <<>>]

ScopeURLs ==
    {U_ADMIN, U_PUBLIC, U_ADMIN_HTTP, U_ADMIN_UPPER, U_SUB, U_OTHER, U_BAD}

\* 'p=1; Path=/admin'
H_PATH_ADMIN ==
    <<Pair(<<"p">>, JStr(<<"1">>)), PathAttr(<<"/", "a", "d", "m", "i", "n">>)>>

\* 's=1; Secure'
H_ONLY_SECURE ==
    <<Pair(<<"s">>, JStr(<<"1">>)), Flag(<<"S", "e", "c", "u", "r", "e">>)>>

\* 'd=1; Domain=a.test'
H_DOMAIN ==
    <<Pair(<<"d">>, JStr(<<"1">>)),
      Pair(<<"D", "o", "m", "a", "i", "n">>,
           JStr(<<"a", ".", "t", "e", "s", "t">>))>>

\* the <<url, Set-Cookie header>> pairs handed to storeCookies
ScopeStoreInputs ==
    ({U_ADMIN} \X {H_PATH_ADMIN, H_ONLY_SECURE, H_DOMAIN})
      \cup {<<U_SUB, H_DOMAIN>>, <<U_BAD, H_PATH_ADMIN>>, <<U_BAD, H_ONLY_SECURE>>}

ScopeStore == \E in \in ScopeStoreInputs : StoreCookies(in[1], <<in[2]>>)

ScopeGetCookies == \E u \in ScopeURLs : GetCookies(u)

ScopeGetCookieHeader == \E u \in ScopeURLs : GetCookieHeader(u)

ScopeGetCookieDetails == \E u \in ScopeURLs : GetCookieDetails(u)

ScopeNext ==
    \/ ScopeStore
    \/ ScopeGetCookies
    \/ ScopeGetCookieHeader
    \/ ScopeGetCookieDetails

ScopeSpec == Init /\ [][ScopeNext]_vars

(***************************************************************************)
(* Properties of the scoping of cookies.                                   *)
(***************************************************************************)
\* the host a url stands for: 'localhost' for a text that is not a URL
HostKey(url) == IF url.valid THEN url.hostname ELSE "localhost"

\* now > expiresAt, for the expiresAt of a cookie record
PastExpiry(cookie) ==
    cookie.expiresAt.t = "num" /\ Gt(Num(now), cookie.expiresAt.n)

\* the latest call is a lookup in the jar that returned
LookedUpReturned == LookedUp /\ ~last.threw

\* C13 - Cookie path scoping: a lookup returns a cookie with a Path attribute
\* p only for a URL whose path starts with p; a cookie stored with
\* Path=/admin is absent for the path /public and, as long as it is not
\* expired, present for the path /admin/users on the same host.
C13_PathScoping ==
    LookedUpReturned =>
        /\ \A i \in 1..Len(last.ret) :
               HasAttr(last.ret[i].raw, A_PATH)
                 => /\ last.url.valid
                    /\ StartsWith(last.url.pathname,
                                  AttrValue(last.ret[i].raw, A_PATH).s)
        /\ \A i \in 1..Len(last.pre) :
               last.pre[i].raw = H_PATH_ADMIN
                 => /\ last.url = U_PUBLIC => ~InSeq(last.pre[i], last.ret)
                    /\ (/\ last.url.valid
                        /\ last.url.pathname = ADMIN_USERS
                        /\ ~PastExpiry(last.pre[i]))
                         => InSeq(last.pre[i], last.ret)

\* C13 witness: a lookup for /public returned cookies of the bucket, and not
\* the one with Path=/admin
C13_Witness ==
    /\ LookedUpReturned
    /\ last.url = U_PUBLIC
    /\ \E i \in 1..Len(last.pre) :
           last.pre[i].raw = H_PATH_ADMIN /\ ~InSeq(last.pre[i], last.ret)
    /\ last.ret # <<>>

\* C14 - Cookie secure scoping: a cookie stored with the Secure attribute is
\* returned by no lookup for a URL whose scheme is http, and is returned, as
\* long as it is not expired and its path matches, for a URL whose scheme is
\* https.
C14_SecureScoping ==
    (LookedUpReturned /\ last.url.valid) =>
        \A i \in 1..Len(last.pre) :
            LET cookie == last.pre[i]
            IN  HasAttr(cookie.raw, A_SECURE)
                  => /\ ToLowerCase(last.url.scheme) = <<"h", "t", "t", "p">>
                          => ~InSeq(cookie, last.ret)
                     /\ (/\ ToLowerCase(last.url.scheme) = HTTPS
                         /\ ~PastExpiry(cookie)
                         /\ HasAttr(cookie.raw, A_PATH)
                              => StartsWith(last.url.pathname,
                                            AttrValue(cookie.raw, A_PATH).s))
                          => InSeq(cookie, last.ret)

\* every record is in the bucket of the host it was stored for
C15_Buckets ==
    \A d \in DOMAIN cookieJar :
        \A i \in 1..Len(cookieJar[d]) : cookieJar[d][i].domain = d

\* a call of storeCookies changes the bucket of the host of its url only, and
\* a lookup returns records of the bucket of the host of its url only
C15_Step ==
    /\ last'.op = "storeCookies"
          => \A d \in (DOMAIN cookieJar \cup DOMAIN cookieJar')
                         \ {HostKey(last'.url)} :
                 /\ d \in DOMAIN cookieJar
                 /\ d \in DOMAIN cookieJar'
                 /\ cookieJar'[d] = cookieJar[d]
    /\ (/\ last'.op \in {"getCookies", "getCookieHeader", "getCookieDetails"}
        /\ ~last'.threw)
          => \A i \in 1..Len(last'.ret) :
                 /\ HostKey(last'.url) \in DOMAIN cookieJar
                 /\ InSeq(last'.ret[i], cookieJar[HostKey(last'.url)])
                 /\ last'.ret[i].domain = HostKey(last'.url)

\* C15 - Cookie domain isolation: after any sequence of storeCookies calls, a
\* lookup returns only records that were stored through a URL with exactly
\* the hostname of its url; a cookie stored for a.test is never returned for
\* sub.a.test or b.test, whatever its Domain attribute.
C15_DomainIsolation == []C15_Buckets /\ [][C15_Step]_vars

\* C15 witness: with the three cookies of a.test in the jar, one of them with
\* Domain=a.test, a lookup for sub.a.test returned the one cookie stored for
\* sub.a.test
C15_Witness ==
    /\ LookedUpReturned
    /\ last.url = U_SUB
    /\ Len(last.ret) = 1
    /\ "a.test" \in DOMAIN cookieJar
    /\ Len(cookieJar["a.test"]) = 3

\* C16 - Cookie operations never throw on a bad URL: for a text that is not a
\* URL, storeCookies, getCookies, getCookieHeader and getCookieDetails return
\* normally in every state of the jar.
C16_NeverThrows ==
    (/\ last.op \in {"storeCookies", "getCookies", "getCookieHeader",
                     "getCookieDetails"}
     /\ ~last.url.valid)
      => ~last.threw

(***************************************************************************)
(* Upsert, expiry and cleanup in the jar: inputs and specification.  Two   *)
(* hosts; the clock advances by seconds.                                   *)
(***************************************************************************)
\* 'sid=xyz', a session cookie
H_SID_NEW == <<Pair(<<"s", "i", "d">>, JStr(<<"x", "y", "z">>))>>

\* 'sid=abc; Expires=soon', an Expires that is not a date
H_BADEXPIRES ==
    <<SID, Pair(<<"E", "x", "p", "i", "r", "e", "s">>,
                JStr(<<"s", "o", "o", "n">>))>>

JarURLs == {URL_HTTPS, U_OTHER}

\* the <<url, Set-Cookie headers>> pairs handed to storeCookies: one header,
\* an array of two, the empty header
JarStoreInputs ==
    ({URL_HTTPS} \X {<<H_ZERO>>, <<H_SESSION>>, <<H_SID_NEW>>, <<H_BADEXPIRES>>,
                     <<H_ZERO, H_SESSION>>, << <<>> >>})
      \cup ({U_OTHER} \X {<<H_ZERO>>, << <<>> >>})

JarStore == \E in \in JarStoreInputs : StoreCookies(in[1], in[2])

JarGetCookies == \E u \in JarURLs : GetCookies(u)

JarGetCookieHeader == \E u \in JarURLs : GetCookieHeader(u)

\* a second passes
Tick == Advance(1000)

JarNext ==
    \/ JarStore
    \/ JarGetCookies
    \/ JarGetCookieHeader
    \/ CookieCleanup
    \/ Tick

JarSpec == Init /\ [][JarNext]_vars

(***************************************************************************)
(* Properties of upsert, expiry and cleanup in the jar.                    *)
(***************************************************************************)
\* C11 - Malformed Expires date: storing and looking up a cookie whose
\* Expires attribute is not a date raises no exception, and no lookup returns
\* the cookie.
C11_MalformedExpires ==
    /\ (last.op = "storeCookies" \/ LookedUp) => ~last.threw
    /\ LookedUp =>
         \A i \in 1..Len(last.pre) :
             LET cookie == last.pre[i]
             IN  (/\ HasAttr(cookie.raw, A_EXPIRES)
                  /\ JDateParse(AttrValue(cookie.raw, A_EXPIRES)).nan)
                   => ~InSeq(cookie, last.ret)

\* the names of the records of a bucket
Names(bucket) == {bucket[i].name : i \in 1..Len(bucket)}

\* the positions of the headers that parseCookie does not reject
Parsed(headers) == {i \in 1..Len(headers) : headers[i] # <<>>}

\* the cookie name of a header
NameOf(header) == Trim(header[1][1].s)

\* the last of the headers with that cookie name
LatestFor(headers, name) ==
    headers[CHOOSE i \in Parsed(headers) :
                /\ NameOf(headers[i]) = name
                /\ \A j \in Parsed(headers) :
                       NameOf(headers[j]) = name => j <= i]

\* C17 - storeCookies upsert: after storeCookies the bucket of the host holds
\* one record for each name it held or a header names; a record whose name no
\* header names is unchanged; the record of a name a header names is the one
\* parsed from the (last such) header at the time of the call, whatever the
\* bucket held under that name; and the value returned is the number of
\* distinct names in the bucket.
C17_Upsert ==
    last.op = "storeCookies" =>
        LET post  == cookieJar[HostKey(last.url)]
            named == {NameOf(last.headers[i]) : i \in Parsed(last.headers)}
        IN  /\ Names(post) = Names(last.pre) \cup named
            /\ Len(post) = Cardinality(Names(post))
            /\ last.ret = Cardinality(Names(post))
            /\ \A i \in 1..Len(last.pre) :
                   last.pre[i].name \notin named => InSeq(last.pre[i], post)
            /\ \A n \in named :
                   Named(post, n) =
                       parseCookie(LatestFor(last.headers, n))
                         @@ [createdAt |-> last.at,
                             domain |-> HostKey(last.url)]

\* C17 witness: 'sid=xyz' replaced another record of sid in a bucket of two
\* records, a second or more after that one was stored
C17_Witness ==
    /\ last.op = "storeCookies"
    /\ last.headers = <<H_SID_NEW>>
    /\ Len(last.pre) = 2
    /\ last.ret = 2
    /\ \E i \in 1..2 :
           /\ last.pre[i].name = NameOf(H_SID_NEW)
           /\ last.pre[i].raw # H_SID_NEW
           /\ last.pre[i].createdAt < last.at

\* the records of a bucket that are not past their expiry
Unexpired(bucket) == SelectSeq(bucket, LAMBDA cookie : ~PastExpiry(cookie))

\* the number of records past their expiry in the buckets of the domains ds
RECURSIVE PastExpiryIn(_, _)
PastExpiryIn(jar, ds) ==
    IF ds = {} THEN 0
    ELSE LET d == CHOOSE x \in ds : TRUE
         IN  (Len(jar[d]) - Len(Unexpired(jar[d])))
               + PastExpiryIn(jar, ds \ {d})

\* after cleanup no bucket is empty and no record is past its expiry
C20_Swept ==
    last.op = "cookieCleanup" =>
        \A d \in DOMAIN cookieJar :
            /\ cookieJar[d] # <<>>
            /\ Unexpired(cookieJar[d]) = cookieJar[d]

\* cleanup keeps, in every bucket, exactly the records that are not past
\* their expiry, unchanged, drops the buckets left empty, and returns the
\* number of records it removed
C20_Step ==
    last'.op = "cookieCleanup" =>
        /\ DOMAIN cookieJar' =
               {d \in DOMAIN cookieJar : Unexpired(cookieJar[d]) # <<>>}
        /\ \A d \in DOMAIN cookieJar' : cookieJar'[d] = Unexpired(cookieJar[d])
        /\ last'.ret = PastExpiryIn(cookieJar, DOMAIN cookieJar)

\* C20 - Cookie Jar cleanup(): removes every record with now > expiresAt in
\* every domain bucket, returns the number of records removed, leaves live
\* records unchanged, and leaves no domain bucket with zero records.
C20_JarCleanup == []C20_Swept /\ [][C20_Step]_vars

\* C20 witness: cleanup removed an expired record in each of the two buckets,
\* and with it the bucket of b.test, and kept the live record of a.test
C20_Witness ==
    /\ last.op = "cookieCleanup"
    /\ last.ret = 2
    /\ DOMAIN cookieJar = {"a.test"}
    /\ Len(cookieJar["a.test"]) = 1

(***************************************************************************)
(* The cache store with two keys: inputs and specification.  The clock     *)
(* advances by seconds; retrieves carry no conditional header.             *)
(***************************************************************************)
URL_A == <<"/", "a">>

URL_B == <<"/", "b">>

KeyURLs == {URL_A, URL_B}

\* the <<url, response, Cache-Control>> triples handed to store: entries that
\* expire at once and entries that last an hour, one of them written by a
\* store that throws before it writes the metadata
KeyStoreInputs ==
    {<<URL_A, R_PLAIN, CC_0>>, <<URL_A, R_PLAIN, CC_NONE>>,
     <<URL_B, R_PLAIN, CC_0>>, <<URL_B, R_NOBODY_ETAG, CC_NONE>>}

KeyStore == \E in \in KeyStoreInputs : Store(in[1], GET, in[2], in[3])

KeyRetrieve == \E u \in KeyURLs : Retrieve(u, GET, Headers(<<>>, NoDate))

KeyInvalidate == \E u \in KeyURLs : Invalidate(u, GET)

KeyNext == KeyStore \/ KeyRetrieve \/ KeyInvalidate \/ Cleanup \/ Tick

KeySpec == Init /\ [][KeyNext]_vars

(***************************************************************************)
(* Properties of invalidate and cleanup of the cache store.                *)
(***************************************************************************)
\* after invalidate the key has neither entry nor metadata
C18_Removed ==
    last.op = "invalidate" =>
        /\ last.key \in {generateCacheKey(u, GET) : u \in KeyURLs}
        /\ last.key \notin DOMAIN cache
        /\ last.key \notin DOMAIN cacheMetadata

\* invalidate removes the entry and the metadata of its key and of no other,
\* and returns whether there was an entry; a retrieve of the key that follows
\* it reports 'not-found'
C18_Step ==
    /\ last'.op = "invalidate"
          => /\ DOMAIN cache' = DOMAIN cache \ {last'.key}
             /\ \A k \in DOMAIN cache' : cache'[k] = cache[k]
             /\ DOMAIN cacheMetadata' = DOMAIN cacheMetadata \ {last'.key}
             /\ \A k \in DOMAIN cacheMetadata' :
                    cacheMetadata'[k] = cacheMetadata[k]
             /\ last'.ret = (last'.key \in DOMAIN cache)
    /\ (last.op = "invalidate" /\ last'.op = "retrieve"
          /\ last'.key = last.key)
          => /\ ~last'.threw
             /\ ~last'.res.hit
             /\ last'.res.reason = "not-found"

\* C18 - invalidate(url, method) removes exactly the entry and the metadata of
\* the key (method, url), returns true if and only if an entry for that key
\* existed, makes the next retrieve for the key report 'not-found', and leaves
\* the entry and metadata of every other key unchanged.
C18_Invalidate == []C18_Removed /\ [][C18_Step]_vars

\* C18 witness: invalidate removed an entry and returned true, with entry and
\* metadata of the other key in place
C18_Witness ==
    /\ last.op = "invalidate"
    /\ last.ret
    /\ DOMAIN cache # {}
    /\ DOMAIN cacheMetadata = DOMAIN cache

\* a cleanup step, against the Maps before the step
C19_Step ==
    last'.op = "cleanup" =>
        LET gone == {k \in DOMAIN cache : Gt(Num(now), cache[k].expiresAt)}
        IN  /\ DOMAIN cache' = DOMAIN cache \ gone
            /\ \A k \in DOMAIN cache' : cache'[k] = cache[k]
            /\ DOMAIN cacheMetadata' = DOMAIN cacheMetadata \ gone
            /\ \A k \in DOMAIN cacheMetadata' :
                   cacheMetadata'[k] = cacheMetadata[k]
            /\ last'.ret = Cardinality(gone)

\* C19 - Cache cleanup(): removes exactly the entries (with their metadata)
\* for which now > expiresAt at the time of the call, returns the number of
\* entries it removed, and leaves every other entry, its access statistics
\* included, and its metadata unchanged.
C19_CacheCleanup == [][C19_Step]_vars

\* C19 witness: cleanup removed one entry and kept one that had been read
C19_Witness ==
    /\ last.op = "cleanup"
    /\ last.ret = 1
    /\ \E k \in DOMAIN cache : cache[k].accessCount > 0

(***************************************************************************)
(* Properties of the two Maps of the cache store and of the order of the   *)
(* conditions of retrieve.                                                 *)
(***************************************************************************)
\* C27 - Cache/metadata consistency: after every sequence of store, retrieve,
\* invalidate, clear and cleanup operations the entry Map and the metadata Map
\* have the same keys, and no retrieve throws on missing metadata.
C27_Consistency ==
    /\ DOMAIN cache = DOMAIN cacheMetadata
    /\ last.op = "retrieve" => ~last.threw

\* If-Modified-Since is present and its date is at or after the stored
\* Last-Modified date
SinceAtOrAfter(ifModifiedSince, lastModified) ==
    /\ ifModifiedSince.kind = "http"
    /\ lastModified.kind = "http"
    /\ ifModifiedSince.sec >= lastModified.sec

\* C22 - Conditional lookup order in retrieve on a non-expired entry: (a) an
\* If-None-Match equal to the stored etag gets a 304 with the ETag header,
\* whatever If-Modified-Since says; (b) otherwise an If-Modified-Since at or
\* after the stored Last-Modified gets a 304 without ETag header; (c)
\* otherwise the result is a full 200 hit with the stored body.
C22_LookupOrder ==
    (RetrievedEntry /\ ~Gt(Num(now), last.pre.expiresAt)) =>
        IF /\ last.headers.IfNoneMatch # <<>>
           /\ last.headers.IfNoneMatch = last.pre.etag
        THEN Answered304 /\ last.res.hdrETag = last.pre.etag
        ELSE IF SinceAtOrAfter(last.headers.IfModifiedSince,
                               last.pre.lastModified)
        THEN Answered304 /\ last.res.hdrETag = <<>>
        ELSE Answered200(last.pre.response.body)

\* the access statistics of the entries over one step: a store that writes
\* the entry of a key sets accessCount to 0 and lastAccessed to the time of
\* the store, a retrieve of the key that returns a hit adds one and sets
\* lastAccessed to its time, and no other step changes them
C23_Step ==
    \A k \in DOMAIN cache' :
        LET after == cache'[k]
            same  == /\ k \in DOMAIN cache
                     /\ after.accessCount = cache[k].accessCount
                     /\ after.lastAccessed = cache[k].lastAccessed
            reset == after.accessCount = 0 /\ after.lastAccessed = now'
        IN  IF last'.op = "store" /\ last'.key = k
            THEN IF last'.threw THEN reset \/ same ELSE reset
            ELSE IF /\ last'.op = "retrieve"
                    /\ last'.key = k
                    /\ ~last'.threw
                    /\ last'.res.hit
            THEN /\ k \in DOMAIN cache
                 /\ after.accessCount = cache[k].accessCount + 1
                 /\ after.lastAccessed = now'
            ELSE same

\* C23 - Access statistics: the accessCount of an entry is the number of
\* retrieves of its key that returned a hit (200 or 304) since the latest
\* store of the key, and lastAccessed the time of the latest such hit or of
\* the store; retrieves that miss, retrieves of other keys and the other
\* operations never change them.
C23_AccessStatistics == [][C23_Step]_vars

\* C12 - Malformed If-Modified-Since: a retrieve on a non-expired entry whose
\* If-Modified-Since (or whose stored Last-Modified) is not a date raises no
\* exception and is never answered with the 304 of the Last-Modified branch.
C12_NoException ==
    C12_Premise => ~last.threw /\ ~Answered304LastModified

\* C4 - Last-Modified validation boundary: on a non-expired entry and with no
\* matching If-None-Match, If-Modified-Since equal to the stored Last-Modified
\* is answered 304 without body, and If-Modified-Since one second earlier is
\* answered with a full 200 hit carrying the stored body.
C4_AnyEntry ==
    (/\ RetrievedEntry
     /\ ~Gt(Num(now), last.pre.expiresAt)
     /\ ~(last.headers.IfNoneMatch # <<>>
            /\ last.headers.IfNoneMatch = last.pre.etag))
      => C4_Boundary

\* One step, for a key whose entry is expired, which is what a cleanup before
\* the step would have removed with its metadata: a retrieve of the key is a
\* miss and leaves neither entry nor metadata, a store on the key leaves no
\* metadata but its own, and any other step leaves the entry as it is or
\* removes it.  A step that tells an expired entry from no entry breaks it.
C26_Step ==
    \A k \in DOMAIN cache :
        Gt(Num(now), cache[k].expiresAt) =>
            IF last'.op = "retrieve" /\ last'.key = k
            THEN /\ ~last'.threw
                 /\ ~last'.res.hit
                 /\ k \notin DOMAIN cache'
                 /\ k \notin DOMAIN cacheMetadata'
            ELSE IF last'.op = "store" /\ last'.key = k
            THEN k \in DOMAIN cacheMetadata' => ~last'.threw
            ELSE k \in DOMAIN cache' => cache'[k] = cache[k]

\* C26 - Lazy eviction is sufficient: cleanup() calls inserted at arbitrary
\* points of a sequence of store, retrieve and invalidate operations and clock
\* advances change no retrieve from hit to miss or back, nor the status, body
\* or etag of a hit: cleanup removes expired entries only, and no step tells
\* an expired entry from an entry that was removed.
C26_LazyEviction == [][C19_Step /\ C26_Step]_vars

(***************************************************************************)
(* Statistics, validation and the text of the Cookie header: operations,   *)
(* inputs and specification.                                               *)
(***************************************************************************)
\* String.prototype.includes, for a text
IncludesText(s, w) ==
    \E i \in 1..(Len(s) - Len(w) + 1) : SubSeq(s, i, i + Len(w) - 1) = w

\* the sum of the sizes of the buckets of the domains ds
RECURSIVE TotalCookies(_, _)
TotalCookies(jar, ds) ==
    IF ds = {} THEN 0
    ELSE LET d == CHOOSE x \in ds : TRUE
         IN  Len(jar[d]) + TotalCookies(jar, ds \ {d})

\* the value getStats computes over a jar; the entries of domains[] are given
\* by domain
StatsOf(jar) ==
    [totalDomains |-> Cardinality(DOMAIN jar),
     totalCookies |-> TotalCookies(jar, DOMAIN jar),
     domains      |-> [d \in DOMAIN jar |->
                          [cookieCount |-> Len(jar[d]),
                           cookies     |-> [i \in 1..Len(jar[d]) |->
                                               jar[d][i].name]]]]

\* getStats()
GetStats ==
    /\ last' = [op |-> "getStats", threw |-> FALSE, ret |-> StatsOf(cookieJar)]
    /\ UNCHANGED <<now, cache, cacheMetadata, cookieJar, stored, route>>

\* the words that make a cookie name sensitive
SensitiveWords ==
    {<<"s", "e", "s", "s", "i", "o", "n">>, <<"t", "o", "k", "e", "n">>,
     <<"a", "u", "t", "h">>}

\* the value validateCookie computes for a cookie record
validateCookie(cookie) ==
    LET sensitive == \E word \in SensitiveWords :
                         IncludesText(ToLowerCase(cookie.name), word)
        attr(k)   == Truthy(Get(cookie.attributes, k))
        warnings  ==
            (IF sensitive /\ ~attr("secure") THEN <<"secure">> ELSE <<>>)
              \o (IF sensitive /\ ~attr("httpOnly") THEN <<"httpOnly">>
                  ELSE <<>>)
        recommendations ==
            (IF sensitive /\ ~attr("sameSite") THEN <<"sameSite">> ELSE <<>>)
              \o (IF ~Truthy(cookie.expiresAt) /\ ~attr("session")
                  THEN <<"expiration">> ELSE <<>>)
    IN  [valid           |-> Len(warnings) = 0,
         warnings        |-> warnings,
         recommendations |-> recommendations]

\* validateCookie(cookie), for a record of the jar
ValidateCookie(cookie) ==
    /\ last' = [op |-> "validateCookie", threw |-> FALSE, cookie |-> cookie,
                ret |-> validateCookie(cookie)]
    /\ UNCHANGED <<now, cache, cacheMetadata, cookieJar, stored, route>>

\* the parts of 'token=a=b' that split('=') gives
TOKEN_AB ==
    <<JStr(<<"t", "o", "k", "e", "n">>), JStr(<<"a">>), JStr(<<"b">>)>>

\* 'token=a=b'
H_TOKEN == <<TOKEN_AB>>

\* 'token=a=b; Secure; HttpOnly; SameSite=Strict'
H_TOKEN_SAFE ==
    <<TOKEN_AB, Flag(<<"S", "e", "c", "u", "r", "e">>),
      Flag(<<"H", "t", "t", "p", "O", "n", "l", "y">>),
      Pair(<<"S", "a", "m", "e", "S", "i", "t", "e">>,
           JStr(<<"S", "t", "r", "i", "c", "t">>))>>

AuditURLs == {URL_HTTPS, U_OTHER}

\* the <<url, Set-Cookie headers>> pairs handed to storeCookies
AuditStoreInputs ==
    ({URL_HTTPS} \X {<<H_ZERO>>, <<H_SESSION>>, <<H_TOKEN>>, <<H_TOKEN_SAFE>>})
      \cup ({U_OTHER} \X {<<H_ZERO>>})

AuditStore == \E in \in AuditStoreInputs : StoreCookies(in[1], in[2])

AuditGetCookieHeader == \E u \in AuditURLs : GetCookieHeader(u)

AuditValidate ==
    \E d \in DOMAIN cookieJar :
        \E i \in 1..Len(cookieJar[d]) : ValidateCookie(cookieJar[d][i])

AuditNext ==
    \/ AuditStore
    \/ AuditGetCookieHeader
    \/ GetStats
    \/ AuditValidate
    \/ Tick

AuditSpec == Init /\ [][AuditNext]_vars

(***************************************************************************)
(* Properties of the statistics, the validation and the Cookie header.     *)
(***************************************************************************)
\* a jar without the records that are past their expiry
WithoutExpired(jar) == [d \in DOMAIN jar |-> Unexpired(jar[d])]

\* C24 - Expired cookies are not observable: once now > expiresAt for a
\* record, every query of the jar answers as if the record were absent,
\* evicted or not: the lookups return what they return for the bucket without
\* it, storeCookies returns the size the bucket has without it, and getStats
\* gives the counts and the names of the jar without it.
C24_ExpiredUnobservable ==
    /\ LookedUpReturned =>
         last.ret = ScanCookies(last.url, Unexpired(last.pre),
                                [kept |-> <<>>, valid |-> <<>>,
                                 threw |-> FALSE]).valid
    /\ last.op = "storeCookies" =>
         last.ret = Len(StoreHeaders(Unexpired(last.pre), HostKey(last.url),
                                     last.headers))
    /\ last.op = "getStats" =>
         /\ last.ret.totalCookies =
                StatsOf(WithoutExpired(cookieJar)).totalCookies
         /\ last.ret.domains = StatsOf(WithoutExpired(cookieJar)).domains

\* C25 - validateCookie SameSite recommendation: for a record without a
\* SameSite attribute, whatever its name, the recommendations include the one
\* about SameSite; valid is true exactly when there are no warnings; and the
\* call changes neither the record nor the jar.
C25_Step ==
    last'.op = "validateCookie" =>
        /\ ~Truthy(Get(last'.cookie.attributes, "sameSite"))
             => \E i \in 1..Len(last'.ret.recommendations) :
                    last'.ret.recommendations[i] = "sameSite"
        /\ last'.ret.valid <=> last'.ret.warnings = <<>>
        /\ cookieJar' = cookieJar
        /\ \E d \in DOMAIN cookieJar' : InSeq(last'.cookie, cookieJar'[d])

C25_SameSiteRecommendation == [][C25_Step]_vars

\* the text whose split('=') gives the parts
RECURSIVE JoinParts(_)
JoinParts(parts) ==
    IF Len(parts) = 1 THEN Head(parts).s
    ELSE Head(parts).s \o <<"=">> \o JoinParts(Tail(parts))

\* C28 - Cookie name/value round-trip: storeCookies(url, 'n=v') on an empty
\* jar, for n and v without ';' and without surrounding whitespace, v possibly
\* with '=' characters, followed at once by getCookieHeader(url) returns
\* exactly 'n=v'.
C28_Step ==
    (/\ last.op = "storeCookies"
     /\ last.pre = <<>>
     /\ DOMAIN cookieJar = {HostKey(last.url)}
     /\ Len(last.headers) = 1
     /\ Len(last.headers[1]) = 1
     /\ Len(last.headers[1][1]) >= 2
     /\ last'.op = "getCookieHeader"
     /\ last'.url = last.url)
        => /\ ~last'.threw
           /\ ~last'.null
           /\ last'.header = JoinParts(last.headers[1][1])

C28_RoundTrip == [][C28_Step]_vars

(***************************************************************************)
(* The route layer: simulateRequest.  One invocation at a time; an action  *)
(* is the code that runs between two awaits.  calls lists the calls to the *)
(* timer, the transport, the mock generator and the cache store, sent the  *)
(* responses written to res.                                               *)
(***************************************************************************)
HTTP_SCHEME == <<"h", "t", "t", "p", ":", "/", "/">>

HTTPS_SCHEME == <<"h", "t", "t", "p", "s", ":", "/", "/">>

\* isValidUrl(url): new URL(url) parses and the protocol is http: or https:
isValidUrl(url) ==
    /\ url.t = "str"
    /\ \E scheme \in {HTTP_SCHEME, HTTPS_SCHEME} :
           /\ StartsWith(ToLowerCase(url.s), scheme)
           /\ Len(url.s) > Len(scheme)

\* faulty variant of Reply: the handler goes on after the response
ReplyAndGoOn(r, status, kind) ==
    [r EXCEPT !.sent = Append(@, [status |-> status, kind |-> kind])]

\* return res.status(status).json(...)
Reply(r, status, kind) ==
    [r EXCEPT !.sent = Append(@, [status |-> status, kind |-> kind]),
              !.pc = "done"]

\* a call to a collaborator
Call(r, name) == [r EXCEPT !.calls = Append(@, name)]

\* the mock branch: generateResponse, then res.json, or the 500 of the outer
\* catch when the branch throws
MockBranch(r, throws) ==
    IF throws
    THEN Reply(Call(r, "generateResponse"), 500, "error")
    ELSE Reply(Call(r, "generateResponse"), 200, "mock")

\* the values of Math.random() * 100
Randoms == {0, 60}

\* the code up to the first await: a missing url, then the packet loss
BeginRequest(body, random) ==
    LET r == [handler |-> "simulateRequest", pc |-> "delay", body |-> body,
              isReal |-> FALSE, calls |-> <<>>, sent |-> <<>>]
    IN  IF ~Truthy(body.url) THEN Reply(r, 400, "missing-url")
        ELSE IF random < body.packetLoss THEN Reply(r, 200, "packet-loss")
        ELSE Call(r, "setTimeout")

\* simulateRequest(req, res) is invoked
SimulateRequest(body) ==
    /\ route = Idle
    /\ \E random \in Randoms : route' = BeginRequest(body, random)
    /\ UNCHANGED <<now, cache, cacheMetadata, cookieJar, stored, last>>

\* the delay has passed: the real request is made, or the mock response sent
DelayPassed ==
    /\ route.handler = "simulateRequest"
    /\ route.pc = "delay"
    /\ IF Truthy(route.body.useRealRequest) /\ isValidUrl(route.body.url)
       THEN route' = [Call(route, "makeRealRequest") EXCEPT !.pc = "transport"]
       ELSE \E throws \in BOOLEAN : route' = MockBranch(route, throws)
    /\ UNCHANGED <<now, cache, cacheMetadata, cookieJar, stored, last>>

\* makeRealRequest has settled: it reports a success, and the response takes
\* its cookies from the mock generator when useCookies is set, or a failure,
\* or the branch throws and the inner catch falls back to the mock response
TransportSettled ==
    /\ route.handler = "simulateRequest"
    /\ route.pc = "transport"
    /\ \E outcome \in {"success", "failure", "exception"} :
         LET real == [route EXCEPT !.isReal = TRUE]
         IN  CASE outcome = "success" ->
                      route' = Reply(IF Truthy(route.body.useCookies)
                                     THEN Call(real, "generateResponse")
                                     ELSE real, 200, "real")
               [] outcome = "failure" ->
                      route' = Reply(real, 200, "real-failure")
               [] outcome = "exception" ->
                      \E throws \in BOOLEAN :
                          route' = MockBranch([route EXCEPT !.isReal = FALSE],
                                              throws)
    /\ UNCHANGED <<now, cache, cacheMetadata, cookieJar, stored, last>>

\* the invocation has returned
Returned ==
    /\ route.handler \in {"simulateRequest", "simulateHTTP2"}
    /\ route.pc = "done"
    /\ route' = Idle
    /\ UNCHANGED <<now, cache, cacheMetadata, cookieJar, stored, last>>

\* request urls: none, the empty text, 'http://a', 'HTTPS://b', 'ftp://a', 'x'
RequestURLs ==
    {Undef, JStr(<<>>), JStr(HTTP_SCHEME \o <<"a">>),
     JStr(<<"H", "T", "T", "P", "S", ":", "/", "/", "b">>),
     JStr(<<"f", "t", "p", ":", "/", "/", "a">>), JStr(<<"x">>)}

JFalse == JStr(<<>>)

RequestBodies ==
    [url : RequestURLs, packetLoss : {0, 50, 100},
     useRealRequest : {JTrue, JFalse}, useCookies : {JTrue, JFalse}]

RequestNext ==
    \/ \E body \in RequestBodies : SimulateRequest(body)
    \/ DelayPassed
    \/ TransportSettled
    \/ Returned

RequestSpec == Init /\ [][RequestNext]_vars

(***************************************************************************)
(* Properties of simulateRequest.                                          *)
(***************************************************************************)
InRequest == route.handler = "simulateRequest"

\* C21 - Route-layer ordering: in handling a simulate-request call the route
\* layer calls retrieve of the cache store before any call to the outbound
\* transport makeRealRequest; the transport is called only after that lookup.
C21_CacheBeforeTransport ==
    InRequest =>
        \A i \in 1..Len(route.calls) :
            route.calls[i] = "makeRealRequest" =>
                \E j \in 1..(i - 1) : route.calls[j] = "retrieve"

\* C29 - simulateRequest sends exactly one response per invocation on every
\* path: never two; one when the invocation has returned; the 400 of a
\* missing url and the response of a packet loss before any delay or
\* transport call; and the response is that of the path taken.
C29_OneResponse ==
    InRequest =>
        /\ Len(route.sent) <= 1
        /\ route.pc = "done" <=> Len(route.sent) = 1
        /\ route.pc = "done" =>
             LET kind == route.sent[1].kind
                 transport == \E i \in 1..Len(route.calls) :
                                  route.calls[i] = "makeRealRequest"
                 mock == \E i \in 1..Len(route.calls) :
                             route.calls[i] = "generateResponse"
             IN  /\ kind = "missing-url" <=> ~Truthy(route.body.url)
                 /\ kind \in {"missing-url", "packet-loss"}
                      <=> route.calls = <<>>
                 /\ kind = "missing-url" <=> route.sent[1].status = 400
                 /\ kind \in {"real", "real-failure"} <=> route.isReal
                 /\ route.isReal => transport
                 /\ kind \in {"mock", "error"} => mock
                 /\ kind = "error" <=> route.sent[1].status = 500

\* C29 witness: the real request threw and the mock response was sent, once
C29_Witness ==
    /\ InRequest
    /\ route.pc = "done"
    /\ route.calls = <<"setTimeout", "makeRealRequest", "generateResponse">>
    /\ route.sent = <<[status |-> 200, kind |-> "mock"]>>

(***************************************************************************)
(* The route layer: simulateHTTP2.  The tasks of requests.map run          *)
(* concurrently: each is at its delay, at its real request, or settled,    *)
(* and the tasks take their steps in any order.                            *)
(***************************************************************************)
\* the longest list of requests
MaxRequests == 3

\* the result of a task that has not settled
Pending == [id |-> 0, url |-> Undef, kind |-> "pending"]

\* faulty variant of Fulfil: the results are in the order of completion
FulfilNextFree(results, i, value) ==
    LET free == CHOOSE k \in 1..Len(results) :
                    /\ results[k] = Pending
                    /\ \A j \in 1..(k - 1) : results[j] # Pending
    IN  [results EXCEPT ![free] = value]

\* Promise.all: the value of the i-th promise is the i-th result
Fulfil(results, i, value) == [results EXCEPT ![i] = value]

\* the i-th task has returned value
Settle(r, i, value) ==
    [r EXCEPT !.tasks[i] = "settled",
              !.results = Fulfil(@, i, value)]

\* simulateHTTP2(req, res) is invoked: the tasks are created, each at its
\* delay
SimulateHTTP2(body) ==
    /\ route = Idle
    /\ route' = [handler |-> "simulateHTTP2", pc |-> "all", body |-> body,
                 tasks   |-> [i \in 1..Len(body.requests) |-> "delay"],
                 results |-> [i \in 1..Len(body.requests) |-> Pending],
                 sent    |-> <<>>]
    /\ UNCHANGED <<now, cache, cacheMetadata, cookieJar, stored, last>>

\* the delay of the i-th task has passed: it makes its real request, or
\* returns the mock result
TaskDelayPassed(i) ==
    /\ route.handler = "simulateHTTP2"
    /\ i \in 1..Len(route.tasks)
    /\ route.tasks[i] = "delay"
    /\ LET request == route.body.requests[i]
       IN  IF Truthy(route.body.useRealRequest) /\ isValidUrl(request.url)
           THEN route' = [route EXCEPT !.tasks[i] = "transport"]
           ELSE route' = Settle(route, i, [id |-> i, url |-> request.url,
                                           kind |-> "mock"])
    /\ UNCHANGED <<now, cache, cacheMetadata, cookieJar, stored, last>>

\* the real request of the i-th task has settled: the task returns its
\* result, or the result of its catch when the request threw
TaskTransportSettled(i) ==
    /\ route.handler = "simulateHTTP2"
    /\ i \in 1..Len(route.tasks)
    /\ route.tasks[i] = "transport"
    /\ \E kind \in {"real", "real-failure", "error"} :
           route' = Settle(route, i, [id |-> i,
                                      url |-> route.body.requests[i].url,
                                      kind |-> kind])
    /\ UNCHANGED <<now, cache, cacheMetadata, cookieJar, stored, last>>

\* every task has settled: the await of Promise.all returns and the response
\* is sent
AllSettled ==
    /\ route.handler = "simulateHTTP2"
    /\ route.pc = "all"
    /\ \A i \in 1..Len(route.tasks) : route.tasks[i] = "settled"
    /\ route' = [route EXCEPT
                    !.sent = Append(@, [status |-> 200,
                                        requests |-> route.results]),
                    !.pc = "done"]
    /\ UNCHANGED <<now, cache, cacheMetadata, cookieJar, stored, last>>

\* the urls of the requests: 'http://a', 'x'
TaskURLs == {JStr(HTTP_SCHEME \o <<"a">>), JStr(<<"x">>)}

RECURSIVE RequestLists(_)
RequestLists(n) ==
    IF n = 0 THEN {<<>>}
    ELSE RequestLists(n - 1)
           \cup {Append(l, [url |-> u]) :
                    l \in {x \in RequestLists(n - 1) : Len(x) = n - 1},
                    u \in TaskURLs}

HTTP2Bodies ==
    [requests : RequestLists(MaxRequests), useRealRequest : {JTrue, JFalse}]

HTTP2Next ==
    \/ \E body \in HTTP2Bodies : SimulateHTTP2(body)
    \/ \E i \in 1..MaxRequests : TaskDelayPassed(i)
    \/ \E i \in 1..MaxRequests : TaskTransportSettled(i)
    \/ AllSettled
    \/ Returned

HTTP2Spec == Init /\ [][HTTP2Next]_vars

(***************************************************************************)
(* Properties of simulateHTTP2.                                            *)
(***************************************************************************)
\* C30 - simulateHTTP2 result ordering under concurrency: whatever the list
\* of n requests and the order in which the tasks complete or fail, at most
\* one response is sent, only when all n tasks have settled, and its requests
\* array has n elements, the i-th with id i (counted from 1) and the url of
\* the i-th request; no result is dropped because another task failed.
C30_ResultOrder ==
    route.handler = "simulateHTTP2" =>
        LET n == Len(route.body.requests)
        IN  /\ Len(route.sent) <= 1
            /\ route.pc = "done" <=> Len(route.sent) = 1
            /\ route.sent # <<>> =>
                 /\ \A i \in 1..n : route.tasks[i] = "settled"
                 /\ route.sent[1].status = 200
                 /\ Len(route.sent[1].requests) = n
                 /\ \A i \in 1..n :
                        /\ route.sent[1].requests[i].id = i
                        /\ route.sent[1].requests[i].url
                               = route.body.requests[i].url
                        /\ route.sent[1].requests[i].kind # "pending"

\* C30 witness: of three requests the first got a real response, the real
\* request of the second threw and the third got the mock result, and the
\* response lists the three in the order of the requests
C30_Witness ==
    /\ route.handler = "simulateHTTP2"
    /\ route.pc = "done"
    /\ Len(route.body.requests) = 3
    /\ route.sent[1].requests[1].kind = "real"
    /\ route.sent[1].requests[2].kind = "error"
    /\ route.sent[1].requests[3].kind = "mock"

====
